---- MODULE Spec2Model ----
(***************************************************************************)
(* A model of four chips of the MPT circuit and of the witness assignment  *)
(* of the account-non-existing row:                                        *)
(*   - AccountNonExistingConfig (assign and the wrong-leaf constraints),   *)
(*   - BranchHashInParentConfig::configure (the two Keccak lookups),       *)
(*   - LeafValueChip::configure (the two Keccak lookups),                  *)
(*   - AccountLeafStorageCodehashChip::configure (the gate).               *)
(* Cells hold elements of a prime field; the field is scaled down to the   *)
(* prime P so that TLC can enumerate it.                                   *)
(***************************************************************************)
EXTENDS Integers, Sequences, FiniteSets, TLC

VARIABLES
    witness,      \* assign: the witness slice, a sequence of rows of bytes
    offset,       \* assign: the index of the ACCOUNT_NON_EXISTING row
    randomness,   \* mpt_config.randomness / acc_r
    region,       \* the advice cells of the accumulator columns, per row
    status,       \* "ready", "assigned", "forged", "panic", "verified"
    panic,        \* why assign panicked: "none", "underflow", "index", "unwrap"
    tbl,          \* the table a chip's gate or lookup is evaluated on
    row,          \* the row a gate or lookup is evaluated at
    is_s,         \* the chip's is_s parameter
    out           \* the values of the gate / lookup inputs at that row

vars == <<witness, offset, randomness, region, status, panic, tbl, row, is_s, out>>

(***************************************************************************)
(* The field F.                                                            *)
(***************************************************************************)
P == 7
Field == 0 .. (P - 1)

\* F::from(u64)
FFrom(n) == n % P
FAdd(a, b) == (a + b) % P
FSub(a, b) == (((a - b) % P) + P) % P
FMul(a, b) == (a * b) % P

RECURSIVE FPowRec(_, _)
FPowRec(a, n) ==
    IF n = 0 THEN 1
    ELSE LET h == FPowRec(a, n \div 2) IN
         IF n % 2 = 0 THEN FMul(h, h) ELSE FMul(a, FMul(h, h))

\* a^n; the powers the model uses most are tabulated once
PowTable == [a \in Field |-> [n \in 0 .. (10 * P) |-> FPowRec(a, n)]]
FPow(a, n) ==
    IF a \in Field /\ n \in 0 .. (10 * P) THEN PowTable[a][n] ELSE FPowRec(a, n)

\* CtOption::None of F::invert
None == -1
\* F::invert: None for zero, otherwise the multiplicative inverse
FInvert(a) == IF a = 0 THEN None ELSE FPow(a, P - 2)

\* A region cell no assign_advice has written
Unassigned == -2

(***************************************************************************)
(* Witness rows.                                                           *)
(***************************************************************************)
\* the number of bytes of a witness row
ROW_LEN == 70
\* row indices within an account leaf
ACCOUNT_LEAF_KEY_C_IND == 1
ACCOUNT_NON_EXISTING_IND == 2
\* the witness slice of the model: the ACCOUNT_LEAF_KEY_C row and the
\* ACCOUNT_NON_EXISTING row
NUM_ROWS == 2

\* usize arithmetic; the width is scaled down (TLC integers have 32 bits)
USIZE_MOD == 2 ^ 20
WrappingSub(a, b) == (((a - b) % USIZE_MOD) + USIZE_MOD) % USIZE_MOD

\* s_main.rlp_bytes() ++ c_main.rlp_bytes(), [3..36]: the key positions
KEY_START == 3
KEY_END == 36

\* MptWitnessRow::get_byte: bytes[i], which panics when i is out of range
InRow(i) == i >= 0 /\ i < ROW_LEN
GetByte(r, i) == r[i + 1]

\* The inputs of the model: rows that are zero except in the key-length
\* byte (position 2), two key bytes (positions 3 and 4) and the last key
\* position (35).
MkRow(len, b3, b4, b35) ==
    [i \in 1 .. ROW_LEN |->
        CASE i = 3 -> len
          [] i = 4 -> b3
          [] i = 5 -> b4
          [] i = KEY_END -> b35
          [] OTHER -> 0]

\* key-length bytes: below 128, 128 + k for k = 0, 1, 2, 33, and a key
\* longer than the row
LenBytes == {0, 128, 129, 130, 161, 255}
KeyByte3 == {0, 1, 200}
KeyByte4 == {0, 1}
KeyByte35 == {0, 1}

(***************************************************************************)
(* AccountNonExistingConfig::assign                                        *)
(***************************************************************************)
Cols == {"key_rlc", "key_mult", "acc_s_rlc", "proof_type"}

\* One iteration of the loop of assign, on st = <<sum, sum_prev, mult>>:
\* sum += F::from(row.get_byte(3 + i)) * mult;
\* sum_prev += F::from(leaf_key_c.get_byte(3 + i)) * mult;
\* mult *= randomness
LoopBodyOffByOne(i, cur, leaf_key_c, r, st) ==
    <<FAdd(st[1], FMul(FFrom(GetByte(cur, KEY_START + i + 1)), st[3])),
      FAdd(st[2], FMul(FFrom(GetByte(leaf_key_c, KEY_START + i + 1)), st[3])),
      FMul(st[3], r)>>

LoopBodyNoMult(i, cur, leaf_key_c, r, st) ==
    <<FAdd(st[1], FMul(FFrom(GetByte(cur, KEY_START + i)), st[3])),
      FAdd(st[2], FMul(FFrom(GetByte(leaf_key_c, KEY_START + i)), st[3])),
      st[3]>>

LoopBody(i, cur, leaf_key_c, r, st) ==
    <<FAdd(st[1], FMul(FFrom(GetByte(cur, KEY_START + i)), st[3])),
      FAdd(st[2], FMul(FFrom(GetByte(leaf_key_c, KEY_START + i)), st[3])),
      FMul(st[3], r)>>

\* The iterations lo .. hi-1 in order, from state st. (The range is halved
\* and st is evaluated on entry only to keep TLC's evaluation shallow.)
RECURSIVE LoopRange(_, _, _, _, _, _)
LoopRange(lo, hi, cur, leaf_key_c, r, st) ==
    IF Len(st) # 3 \/ lo >= hi THEN st
    ELSE IF hi = lo + 1 THEN LoopBody(lo, cur, leaf_key_c, r, st)
    ELSE LET mid == (lo + hi) \div 2 IN
         LoopRange(mid, hi, cur, leaf_key_c, r,
                   LoopRange(lo, mid, cur, leaf_key_c, r, st))

\* for i in 0..key_len { ... }: with key_len > ROW_LEN - 3 the iteration
\* i = ROW_LEN - 3 reads past the end of the rows and panics, before any
\* cell is written
AssignLoop(key_len, cur, leaf_key_c, r) ==
    IF key_len > ROW_LEN - KEY_START /\ ~InRow(KEY_START + (ROW_LEN - KEY_START))
    THEN [panic |-> "index", sum |-> 0, sum_prev |-> 0]
    ELSE LET st == LoopRange(0, key_len, cur, leaf_key_c, r, <<0, 0, 1>>)
         IN  [panic |-> "none", sum |-> st[1], sum_prev |-> st[2]]

\* let mut diff_inv = F::zero(); if sum != sum_prev { diff_inv = invert(sum - sum_prev).unwrap() }
DiffInvBackwards(sum, sum_prev) ==
    IF sum # sum_prev THEN FInvert(FSub(sum_prev, sum)) ELSE 0

DiffInv(sum, sum_prev) ==
    IF sum # sum_prev THEN FInvert(FSub(sum, sum_prev)) ELSE 0

\* The whole call. wrap: the build has overflow checks off, so a usize
\* subtraction wraps instead of panicking.
AssignResult(w, off, r, wrap) ==
    LET d == ACCOUNT_NON_EXISTING_IND - ACCOUNT_LEAF_KEY_C_IND
        idx == IF off >= d THEN off - d ELSE WrappingSub(off, d)
    IN  IF off < d /\ ~wrap THEN [panic |-> "underflow"]
        ELSE IF idx >= Len(w) THEN [panic |-> "index"]
        ELSE IF off >= Len(w) THEN [panic |-> "index"]
        ELSE
          LET leaf_key_c == w[idx + 1]
              cur == w[off + 1]
              b == GetByte(leaf_key_c, 2)
              key_len == IF b >= 128 THEN b - 128 ELSE WrappingSub(b, 128)
          IN  IF b < 128 /\ ~wrap THEN [panic |-> "underflow"]
              ELSE
                LET l == AssignLoop(key_len, cur, leaf_key_c, r)
                    diff_inv == DiffInv(l.sum, l.sum_prev)
                IN  IF l.panic # "none" THEN [panic |-> l.panic]
                    ELSE IF diff_inv = None THEN [panic |-> "unwrap"]
                    ELSE [panic |-> "none", sum |-> l.sum, sum_prev |-> l.sum_prev,
                          diff_inv |-> diff_inv]

\* MptWitnessRow::get_byte_rev(rev_index): bytes[len - rev_index]
get_byte_rev(r, rev_index) == r[Len(r) - rev_index + 1]
\* the position, from the end of the row, of the flag of the
\* non-existing-account proof
IS_NON_EXISTING_ACCOUNT_POS == 3

\* The assign_advice calls of assign on the cells of row offset: the three
\* accumulator cells, then proof_type when the flag byte of the row is 1
AssignRowAlwaysProofType(cells, res, cur) ==
    [cells EXCEPT !["key_rlc"] = res.sum,
                  !["key_mult"] = res.sum_prev,
                  !["acc_s_rlc"] = res.diff_inv,
                  !["proof_type"] = FFrom(4)]

AssignRow(cells, res, cur) ==
    LET three == [cells EXCEPT !["key_rlc"] = res.sum,
                               !["key_mult"] = res.sum_prev,
                               !["acc_s_rlc"] = res.diff_inv]
    IN  IF get_byte_rev(cur, IS_NON_EXISTING_ACCOUNT_POS) = 1
        THEN [three EXCEPT !["proof_type"] = FFrom(4)]
        ELSE three

Assign ==
    /\ status = "ready"
    /\ \E wrap \in BOOLEAN :
         LET res == AssignResult(witness, offset, randomness, wrap) IN
         IF res.panic # "none"
         THEN /\ status' = "panic"
              /\ panic' = res.panic
              /\ UNCHANGED region
         ELSE /\ status' = "assigned"
              /\ panic' = "none"
              /\ region' = [region EXCEPT ![offset] =
                              AssignRow(@, res, witness[offset + 1])]
    /\ UNCHANGED <<witness, offset, randomness, tbl, row, is_s, out>>

\* The advice cells are the prover's: any field elements may be written to
\* the three accumulator cells of the row.
ProverAssign ==
    /\ status = "ready"
    /\ offset >= 1
    /\ \E a \in Field, b \in Field, d \in Field :
         region' = [region EXCEPT ![offset] =
                      [@ EXCEPT !["key_rlc"] = a, !["key_mult"] = b, !["acc_s_rlc"] = d]]
    /\ status' = "forged"
    /\ UNCHANGED <<witness, offset, randomness, panic, tbl, row, is_s, out>>

(***************************************************************************)
(* AccountNonExistingConfig::configure: add_wrong_leaf_constraints         *)
(***************************************************************************)
\* rlc::expr(expressions, powers of r): e0 + e1*r + e2*r^2 + ...
\* (the terms lo .. hi of the sum; the range is halved to keep TLC's
\* evaluation shallow)
RECURSIVE RlcTerms(_, _, _, _)
RlcTerms(es, r, lo, hi) ==
    IF lo > hi THEN 0
    ELSE IF lo = hi THEN FMul(es[lo], FPow(r, lo - 1))
    ELSE LET mid == (lo + hi) \div 2 IN
         FAdd(RlcTerms(es, r, lo, mid), RlcTerms(es, r, mid + 1, hi))

RlcExpr(es, r) == RlcTerms(es, r, 1, Len(es))

\* the cell of main column i (s_main.rlp_bytes() ++ c_main.rlp_bytes()) at row j
MainCell(w, j, i) == FFrom(GetByte(w[j + 1], i))

\* calc_rlc(rot) at row cur
calc_rlc(w, cur, rot, r) ==
    RlcExpr([k \in 1 .. (KEY_END - KEY_START) |-> MainCell(w, cur + rot, KEY_START + k - 1)], r)

\* an advice cell of the accumulator columns (an unassigned cell reads as zero)
Cell(reg, j, col) == IF reg[j][col] = Unassigned THEN 0 ELSE reg[j][col]

\* require!((rlc - rlc_prev) * diff_inv => 1): the constraint's value
NonZeroDiffSum(rlc, rlc_prev, diff_inv) == FSub(FMul(FAdd(rlc, rlc_prev), diff_inv), 1)

NonZeroDiff(rlc, rlc_prev, diff_inv) == FSub(FMul(FSub(rlc, rlc_prev), diff_inv), 1)

\* the three constraints of add_wrong_leaf_constraints at row cur
add_wrong_leaf_constraints(w, reg, cur, r) ==
    LET rlc == Cell(reg, cur, "key_rlc")
        rlc_prev == Cell(reg, cur, "key_mult")
        diff_inv == Cell(reg, cur, "acc_s_rlc")
    IN  <<FSub(rlc, calc_rlc(w, cur, 0, r)),
          FSub(rlc_prev, calc_rlc(w, cur, -1, r)),
          NonZeroDiff(rlc, rlc_prev, diff_inv)>>

(***************************************************************************)
(* Specifications of the account-non-existing row.                         *)
(***************************************************************************)
NoTable == <<>>
EmptyRegion == [j \in 0 .. (NUM_ROWS - 1) |-> [c \in Cols |-> Unassigned]]

Init ==
    /\ \E l1 \in LenBytes, a1 \in KeyByte3, b1 \in KeyByte4, c1 \in KeyByte35,
          a2 \in KeyByte3, b2 \in KeyByte4, c2 \in KeyByte35 :
          \E l2 \in {l1, 129} :
             witness = <<MkRow(l1, a1, b1, c1), MkRow(l2, a2, b2, c2)>>
    /\ offset \in 0 .. (NUM_ROWS - 1)
    /\ randomness \in Field
    /\ region = EmptyRegion
    /\ status = "ready"
    /\ panic = "none"
    /\ tbl = NoTable
    /\ row = 0
    /\ is_s = TRUE
    /\ out = <<>>

Next == Assign

Spec == Init /\ [][Next]_vars

\* assign on a witness of FrameRows rows and a region that earlier calls
\* have written: each row has its flag byte, the rows differ in the
\* key-length byte and in two key bytes, and every cell of the region is
\* unassigned or holds an earlier value.
FrameRows == NUM_ROWS + 1
FrameLens == {129, 130, 161, 255}
FrameFlags == {0, 1, 2}
MkFlagRow(len, b3, b4, flag) ==
    [MkRow(len, b3, b4, 0) EXCEPT ![ROW_LEN - IS_NON_EXISTING_ACCOUNT_POS + 1] = flag]

InitFrame ==
    /\ \E l \in FrameLens, a1 \in KeyByte4, a2 \in KeyByte4, b2 \in KeyByte4,
          f \in FrameFlags, x \in {0, 200}, fx \in {0, 1}, first \in BOOLEAN :
          LET leaf == MkFlagRow(l, a1, 0, 0)
              cur == MkFlagRow(l, a2, b2, f)
              other == MkFlagRow(130, x, x, fx)
          IN  witness = IF first THEN <<other, leaf, cur>> ELSE <<leaf, cur, other>>
    /\ offset \in 0 .. (FrameRows - 1)
    /\ randomness \in {0, 3}
    /\ \E old \in {Unassigned, 1}, oldpt \in {Unassigned, 1, 4} :
          region = [j \in 0 .. (FrameRows - 1) |->
                      [c \in Cols |-> IF c = "proof_type" THEN oldpt ELSE old]]
    /\ status = "ready"
    /\ panic = "none"
    /\ tbl = NoTable
    /\ row = 0
    /\ is_s = TRUE
    /\ out = <<>>

SpecFrame == InitFrame /\ [][Next]_vars

\* the prover's assignments: a smaller set of witnesses
ProverRows == {MkRow(129, a, 0, 0) : a \in KeyByte3}

InitProver ==
    /\ witness \in {<<a, b>> : a \in ProverRows, b \in ProverRows}
    /\ offset = ACCOUNT_NON_EXISTING_IND - ACCOUNT_LEAF_KEY_C_IND
    /\ randomness \in Field
    /\ region = EmptyRegion
    /\ status = "ready"
    /\ panic = "none"
    /\ tbl = NoTable
    /\ row = 0
    /\ is_s = TRUE
    /\ out = <<>>

NextProver == Assign \/ ProverAssign

SpecProver == InitProver /\ [][NextProver]_vars

(***************************************************************************)
(* Tables and lookups shared by the chips.                                 *)
(***************************************************************************)
\* Rotation(k) from row R of a table of n rows (rotations wrap around)
Rot(n, R, k) == (((R + k) % n) + n) % n

\* The rows of the Keccak table the model loads: the all-zero row, which a
\* disabled lookup hits, and one (input RLC, output RLC) pair.
KeccakTable == {<<0, 0>>, <<3, 2>>}

\* lookup_any: the input tuple must be a row of the table
LookupHolds(input, table) == input \in table

(***************************************************************************)
(* BranchHashInParentConfig::configure                                     *)
(***************************************************************************)
\* rows of a branch: the init row, 16 children, 2 extension rows
BRANCH_ROWS_NUM == 19
\* the table of the model: two consecutive branches
BranchRows == 0 .. (2 * BRANCH_ROWS_NUM - 1)
BranchN == 2 * BRANCH_ROWS_NUM
\* the last child row of the first and of the second branch
LastChildA == 16
LastChildB == BRANCH_ROWS_NUM + 16

\* get_is_extension_node(meta, s_main.bytes, rot)
get_is_extension_node(t, R, rot) == t.is_extension_node[Rot(BranchN, R, rot)]

\* acc + c128 * mult
branch_acc(t, R) == FAdd(t.acc[R], FMul(FFrom(128), t.acc_mult[R]))

\* "account first level branch hash - compared to root": the selector
\* q_not_first * is_last_branch_child * (1 - not_first_level)
FirstLevelSelectorNoLevel(t, R) ==
    FMul(t.q_not_first[R], t.is_last_branch_child[R])

FirstLevelSelector(t, R) ==
    FMul(FMul(t.q_not_first[R], t.is_last_branch_child[R]),
         FSub(1, t.not_first_level[R]))

\* the input tuple of that lookup
FirstLevelLookup(t, R) ==
    <<FMul(FirstLevelSelector(t, R), branch_acc(t, R)),
      FMul(FirstLevelSelector(t, R), t.inter_root[R])>>

\* the placeholder flag of the S or of the C half, at the branch init row
is_branch_placeholder(t, R, s) ==
    IF s THEN t.is_branch_s_placeholder[Rot(BranchN, R, -16)]
    ELSE t.is_branch_c_placeholder[Rot(BranchN, R, -16)]

\* "branch_hash_in_parent": the selector
\* not_first_level * is_last_branch_child
\*   * (1 - is_account_leaf_in_added_branch_prev)
\*   * (1 - is_branch_placeholder) * (1 - is_extension_node)
ParentSelectorNoExtension(t, R, s) ==
    FMul(FMul(FMul(t.not_first_level[R], t.is_last_branch_child[R]),
              FSub(1, t.is_account_leaf_in_added_branch[Rot(BranchN, R, -17)])),
         FSub(1, is_branch_placeholder(t, R, s)))

ParentSelector(t, R, s) ==
    FMul(FMul(FMul(FMul(t.not_first_level[R], t.is_last_branch_child[R]),
                   FSub(1, t.is_account_leaf_in_added_branch[Rot(BranchN, R, -17)])),
              FSub(1, is_branch_placeholder(t, R, s))),
         FSub(1, get_is_extension_node(t, R, -16)))

\* the input tuple of that lookup
BranchHashInParentLookupAtInit(t, R, s) ==
    <<FMul(ParentSelector(t, R, s), branch_acc(t, R)),
      FMul(ParentSelector(t, R, s), t.mod_node_hash_rlc[Rot(BranchN, R, -16)])>>

BranchHashInParentLookup(t, R, s) ==
    <<FMul(ParentSelector(t, R, s), branch_acc(t, R)),
      FMul(ParentSelector(t, R, s), t.mod_node_hash_rlc[Rot(BranchN, R, -19)])>>

\* The table: two branches of BRANCH_ROWS_NUM rows. The cells the lookups of
\* the second branch's last child read are free; the rest is as the layout
\* has it.
BranchTable(nfl, plS, plC, ext, al, a, m, root, mh) ==
    [q_not_first |-> [i \in BranchRows |-> IF i = 0 THEN 0 ELSE 1],
     not_first_level |-> [i \in BranchRows |-> IF i >= BRANCH_ROWS_NUM THEN nfl ELSE 0],
     is_last_branch_child |->
        [i \in BranchRows |-> IF i \in {LastChildA, LastChildB} THEN 1 ELSE 0],
     is_account_leaf_in_added_branch |->
        [i \in BranchRows |-> IF i = BRANCH_ROWS_NUM - 1 THEN al ELSE 0],
     is_branch_s_placeholder |-> [i \in BranchRows |-> IF i = BRANCH_ROWS_NUM THEN plS ELSE 0],
     is_branch_c_placeholder |-> [i \in BranchRows |-> IF i = BRANCH_ROWS_NUM THEN plC ELSE 0],
     is_extension_node |-> [i \in BranchRows |-> IF i = BRANCH_ROWS_NUM THEN ext ELSE 0],
     acc |-> [i \in BranchRows |-> IF i \in {LastChildA, LastChildB} THEN a ELSE 0],
     acc_mult |-> [i \in BranchRows |-> IF i \in {LastChildA, LastChildB} THEN m ELSE 0],
     inter_root |-> [i \in BranchRows |-> root],
     mod_node_hash_rlc |-> [i \in BranchRows |-> IF i >= 1 /\ i <= LastChildA THEN mh ELSE 0]]

Bool == {0, 1}

InitBranch ==
    /\ \E nfl \in Bool, plS \in Bool, plC \in Bool, ext \in Bool, al \in Bool,
          a \in Bool, m \in Bool, root \in {0, 2}, mh \in {0, 2} :
          tbl = BranchTable(nfl, plS, plC, ext, al, a, m, root, mh)
    /\ is_s \in BOOLEAN
    /\ row = 0
    /\ out = <<>>
    /\ status = "ready"
    /\ witness = <<>>
    /\ offset = 0
    /\ randomness = 0
    /\ region = <<>>
    /\ panic = "none"

\* the two lookups are evaluated at a row of the table
VerifyBranchRow ==
    /\ status = "ready"
    /\ \E R \in BranchRows :
         /\ row' = R
         /\ out' = [first |-> FirstLevelLookup(tbl, R),
                    first_sel |-> FirstLevelSelector(tbl, R),
                    parent |-> BranchHashInParentLookup(tbl, R, is_s),
                    parent_sel |-> ParentSelector(tbl, R, is_s),
                    first_ok |-> LookupHolds(FirstLevelLookup(tbl, R), KeccakTable),
                    parent_ok |->
                        LookupHolds(BranchHashInParentLookup(tbl, R, is_s), KeccakTable)]
    /\ status' = "verified"
    /\ UNCHANGED <<witness, offset, randomness, region, panic, tbl, is_s>>

NextBranch == VerifyBranchRow

SpecBranch == InitBranch /\ [][NextBranch]_vars

(***************************************************************************)
(* RLC folding of the cells of a row, as the chips' gates do it.           *)
(***************************************************************************)
\* rlc = rlc + cell * mult; mult = mult * acc_r      on st = <<rlc, mult>>
FoldStep(v, r, st) == <<FAdd(st[1], FMul(v, st[2])), FMul(st[2], r)>>

\* The cells vals[lo .. hi] folded in order, from state st. (The range is
\* halved and st is evaluated on entry only to keep TLC's evaluation
\* shallow.)
RECURSIVE FoldRange(_, _, _, _, _)
FoldRange(vals, lo, hi, r, st) ==
    IF Len(st) # 2 \/ lo > hi THEN st
    ELSE IF lo = hi THEN FoldStep(vals[lo], r, st)
    ELSE LET mid == (lo + hi) \div 2 IN
         FoldRange(vals, mid + 1, hi, r, FoldRange(vals, lo, mid, r, st))

(***************************************************************************)
(* LeafValueChip::configure                                                *)
(***************************************************************************)
HASH_WIDTH == 32
KECCAK_OUTPUT_WIDTH == 4

\* let rot = -6
LeafRot == 0 - 6
\* let mut rot_into_init = -20; if !is_s { rot_into_init = -22 }
rot_into_init(s) == IF s THEN 0 - 20 ELSE 0 - 22
\* let mut rot_leaf = -1; if !is_s { rot_leaf = -2 }
rot_leaf(s) == IF s THEN 0 - 1 ELSE 0 - 2

\* the table of the model: the rows the rotations of the leaf value row
\* reach, the leaf value row being the last one
LeafN == 26
LeafRows == 0 .. (LeafN - 1)
LeafRow == LeafN - 1

\* rlc: acc and acc_mult of the previous row, then s_rlp1, s_rlp2 and the
\* s_advices of the current row folded in
LeafRlc(t, R, r) ==
    FoldRange(<<t.s_rlp1[R], t.s_rlp2[R]>> \o t.s_advices[R], 1, 2 + HASH_WIDTH, r,
              <<t.acc[Rot(LeafN, R, -1)], t.acc_mult[Rot(LeafN, R, -1)]>>)[1]

\* normal lookup: q_enable * v * (1 - sel) * (1 - is_leaf_without_branch)
\*                 * (1 - is_branch_placeholder)
LeafNormalInput(t, R, s, v) ==
    FMul(FMul(FMul(FMul(t.q_enable[R], v),
                   FSub(1, t.sel[Rot(LeafN, R, LeafRot)])),
              FSub(1, t.is_account_leaf_storage_codehash_c[Rot(LeafN, R, rot_leaf(s))])),
         FSub(1, t.is_branch_placeholder[Rot(LeafN, R, rot_into_init(s))]))

\* the input tuple of the normal lookup: the RLC and the sc_keccak words
\* at rotation rot
LeafNormalLookup(t, R, s, r) ==
    <<LeafNormalInput(t, R, s, LeafRlc(t, R, r))>> \o
    [j \in 1 .. KECCAK_OUTPUT_WIDTH |->
        LeafNormalInput(t, R, s, t.sc_keccak[Rot(LeafN, R, LeafRot)][j])]

\* placeholder lookup: q_enable * v * (1 - sel) * (1 - is_leaf_without_branch)
\*                      * is_branch_placeholder
LeafPlaceholderInputNoSel(t, R, s, v) ==
    FMul(FMul(FMul(t.q_enable[R], v),
              FSub(1, t.is_account_leaf_storage_codehash_c[
                          Rot(LeafN, R, rot_into_init(s) - 1)])),
         t.is_branch_placeholder[Rot(LeafN, R, rot_into_init(s))])

LeafPlaceholderInput(t, R, s, v) ==
    FMul(FMul(FMul(FMul(t.q_enable[R], v),
                   FSub(1, t.sel[Rot(LeafN, R, LeafRot)])),
              FSub(1, t.is_account_leaf_storage_codehash_c[
                          Rot(LeafN, R, rot_into_init(s) - 1)])),
         t.is_branch_placeholder[Rot(LeafN, R, rot_into_init(s))])

\* the input tuple of the placeholder lookup: the RLC and the sc_keccak
\* words at rotation rot_into_init - 3
LeafPlaceholderLookupSameRow(t, R, s, r) ==
    <<LeafPlaceholderInput(t, R, s, LeafRlc(t, R, r))>> \o
    [j \in 1 .. KECCAK_OUTPUT_WIDTH |->
        LeafPlaceholderInput(t, R, s, t.sc_keccak[Rot(LeafN, R, LeafRot)][j])]

LeafPlaceholderLookup(t, R, s, r) ==
    <<LeafPlaceholderInput(t, R, s, LeafRlc(t, R, r))>> \o
    [j \in 1 .. KECCAK_OUTPUT_WIDTH |->
        LeafPlaceholderInput(t, R, s,
            t.sc_keccak[Rot(LeafN, R, rot_into_init(s) - 3)][j])]

\* The table: the cells the lookups of the leaf value row read are free or
\* fixed to non-zero values, all other cells are zero.
LeafTable(s, q, sl, pl, w1, w2, b, hP, hG) ==
    [q_enable |-> [i \in LeafRows |-> IF i = LeafRow THEN q ELSE 0],
     s_rlp1 |-> [i \in LeafRows |-> IF i = LeafRow THEN 1 ELSE 0],
     s_rlp2 |-> [i \in LeafRows |-> IF i = LeafRow THEN 2 ELSE 0],
     s_advices |-> [i \in LeafRows |-> [j \in 1 .. HASH_WIDTH |->
                      IF i # LeafRow THEN 0
                      ELSE IF j = 1 THEN 3
                      ELSE IF j = HASH_WIDTH THEN b ELSE 0]],
     sc_keccak |-> [i \in LeafRows |-> [j \in 1 .. KECCAK_OUTPUT_WIDTH |->
                      IF i = LeafRow + LeafRot THEN FFrom(hP * j)
                      ELSE IF i = LeafRow + rot_into_init(s) - 3 THEN FFrom(hG * (j + 1))
                      ELSE 0]],
     acc |-> [i \in LeafRows |-> IF i = LeafRow - 1 THEN 1 ELSE 0],
     acc_mult |-> [i \in LeafRows |-> IF i = LeafRow - 1 THEN 2 ELSE 0],
     sel |-> [i \in LeafRows |-> IF i = LeafRow + LeafRot THEN sl ELSE 0],
     is_account_leaf_storage_codehash_c |->
        [i \in LeafRows |-> IF i = LeafRow + rot_leaf(s) THEN w1
                            ELSE IF i = LeafRow + rot_into_init(s) - 1 THEN w2 ELSE 0],
     is_branch_placeholder |->
        [i \in LeafRows |-> IF i = LeafRow + rot_into_init(s) THEN pl ELSE 0]]

\* the values of acc_r the model draws
AccRs == {2, 3}

InitLeaf ==
    /\ is_s \in BOOLEAN
    /\ \E q \in Bool, sl \in Bool, pl \in Bool, w1 \in Bool, w2 \in Bool,
          b \in Bool, hP \in Bool, hG \in Bool :
          tbl = LeafTable(is_s, q, sl, pl, w1, w2, b, hP, hG)
    /\ randomness \in AccRs
    /\ row = 0
    /\ out = <<>>
    /\ status = "ready"
    /\ witness = <<>>
    /\ offset = 0
    /\ region = <<>>
    /\ panic = "none"

\* the two lookups are evaluated at a row of the table
VerifyLeafRow ==
    /\ status = "ready"
    /\ \E R \in LeafRows :
         /\ row' = R
         /\ out' = [normal |-> LeafNormalLookup(tbl, R, is_s, randomness),
                    normal_sel |-> LeafNormalInput(tbl, R, is_s, 1),
                    placeholder |-> LeafPlaceholderLookup(tbl, R, is_s, randomness),
                    placeholder_sel |-> LeafPlaceholderInput(tbl, R, is_s, 1)]
    /\ status' = "verified"
    /\ UNCHANGED <<witness, offset, randomness, region, panic, tbl, is_s>>

NextLeaf == VerifyLeafRow

SpecLeaf == InitLeaf /\ [][NextLeaf]_vars

(***************************************************************************)
(* AccountLeafStorageCodehashChip::configure                               *)
(***************************************************************************)
\* the table of the model: the storage/codehash row and the two rows above
CodehashN == 3
CodehashRows == 0 .. (CodehashN - 1)
CodehashRow == CodehashN - 1

\* let mut rot = -1; if !is_s { rot = -2 }
CodehashRotAlwaysPrev(s) == 0 - 1

CodehashRot(s) == IF s THEN 0 - 1 ELSE 0 - 2

\* expr: acc_prev, then s_rlp2, the s_advices, c_rlp2 and the c_advices of
\* the current row folded in, curr_r starting at acc_mult_prev
StorageCodehashExpr(t, R, s, r) ==
    LET prev == Rot(CodehashN, R, CodehashRot(s))
        st1 == FoldRange(<<t.s_rlp2[R]>> \o t.s_advices[R], 1, 1 + HASH_WIDTH, r,
                         <<t.acc[prev], t.acc_mult[prev]>>)
        st2 == FoldRange(<<t.c_rlp2[R]>> \o t.c_advices[R], 1, 1 + HASH_WIDTH, r, st1)
    IN  st2[1]

\* the gate "account leaf storage codehash": its three constraints
StorageCodehashGateNoCRlp2(t, R, s, r) ==
    <<FMul(t.q_enable[R], FSub(t.s_rlp2[R], FFrom(160))),
      FMul(t.q_enable[R], FSub(t.s_rlp2[R], FFrom(160))),
      FMul(t.q_enable[R], FSub(StorageCodehashExpr(t, R, s, r), t.acc[R]))>>

StorageCodehashGate(t, R, s, r) ==
    <<FMul(t.q_enable[R], FSub(t.s_rlp2[R], FFrom(160))),
      FMul(t.q_enable[R], FSub(t.c_rlp2[R], FFrom(160))),
      FMul(t.q_enable[R], FSub(StorageCodehashExpr(t, R, s, r), t.acc[R]))>>

\* The table: the cells the gate of the storage/codehash row reads are
\* free or fixed to non-zero values; the row above that the gate does not
\* read holds other values.
CodehashTable(s, q, sr, cr, sb, cb, ap, mp, ac) ==
    [q_enable |-> [i \in CodehashRows |-> IF i = CodehashRow THEN q ELSE 0],
     s_rlp2 |-> [i \in CodehashRows |-> IF i = CodehashRow THEN FFrom(sr) ELSE 0],
     c_rlp2 |-> [i \in CodehashRows |-> IF i = CodehashRow THEN FFrom(cr) ELSE 0],
     s_advices |-> [i \in CodehashRows |-> [j \in 1 .. HASH_WIDTH |->
                      IF i # CodehashRow THEN 0
                      ELSE IF j = 1 THEN 2
                      ELSE IF j = HASH_WIDTH THEN sb ELSE 0]],
     c_advices |-> [i \in CodehashRows |-> [j \in 1 .. HASH_WIDTH |->
                      IF i # CodehashRow THEN 0
                      ELSE IF j = 1 THEN 3
                      ELSE IF j = HASH_WIDTH THEN cb ELSE 0]],
     acc |-> [i \in CodehashRows |->
                IF i = CodehashRow THEN ac
                ELSE IF i = CodehashRow + CodehashRot(s) THEN ap ELSE 5],
     acc_mult |-> [i \in CodehashRows |->
                IF i = CodehashRow + CodehashRot(s) THEN mp ELSE 0]]

InitCodehash ==
    /\ is_s \in BOOLEAN
    /\ \E q \in {0, 1, 2}, sr \in {160, 161}, cr \in {160, 159}, sb \in Bool, cb \in Bool,
          ap \in Bool, mp \in {1, 3}, ac \in Field :
          tbl = CodehashTable(is_s, q, sr, cr, sb, cb, ap, mp, ac)
    /\ randomness \in AccRs
    /\ row = 0
    /\ out = <<>>
    /\ status = "ready"
    /\ witness = <<>>
    /\ offset = 0
    /\ region = <<>>
    /\ panic = "none"

\* the gate is evaluated at a row of the table; the row is accepted when
\* every constraint is zero
VerifyCodehashRow ==
    /\ status = "ready"
    /\ \E R \in CodehashRows :
         /\ row' = R
         /\ out' = [gate |-> StorageCodehashGate(tbl, R, is_s, randomness),
                    accepted |->
                        StorageCodehashGate(tbl, R, is_s, randomness) = <<0, 0, 0>>]
    /\ status' = "verified"
    /\ UNCHANGED <<witness, offset, randomness, region, panic, tbl, is_s>>

NextCodehash == VerifyCodehashRow

SpecCodehash == InitCodehash /\ [][NextCodehash]_vars

(***************************************************************************)
(* The loop of assign and the fold of the chips, one iteration at a time.  *)
(***************************************************************************)
\* the number of bytes folded
FoldLen == 3
\* the bytes the model draws: distinct bytes are distinct field elements
\* (0 .. 255 is below the modulus of F, so the bytes stay below P)
FoldBytes == {0, 1, P - 1}
FoldRs == {0, 1, 3}
FoldSeqs == [1 .. FoldLen -> FoldBytes]

\* a witness row with the bytes bs at the key positions
FoldRow(bs) ==
    [i \in 1 .. ROW_LEN |->
        IF i > KEY_START /\ i <= KEY_START + Len(bs) THEN bs[i - KEY_START] ELSE 0]

\* let mut sum = F::zero(); let mut sum_prev = F::zero(); let mut mult = F::one();
\* and a fresh accumulator pair (acc, acc_mult) of a chip
InitFold ==
    /\ \E a \in FoldSeqs, b \in FoldSeqs : witness = <<FoldRow(a), FoldRow(b)>>
    /\ randomness \in FoldRs
    /\ offset = 0
    /\ region = [assign |-> <<0, 0, 1>>, chip |-> <<0, 1>>]
    /\ status = "folding"
    /\ panic = "none"
    /\ tbl = NoTable
    /\ row = 0
    /\ is_s = TRUE
    /\ out = <<>>

\* iteration i = offset of the loop of assign on (row, leaf_key_c), and the
\* same byte of row folded by the chip's rlc/mult step
AssignLoopStep ==
    /\ status = "folding"
    /\ offset < FoldLen
    /\ region' = [assign |-> LoopBody(offset, witness[2], witness[1], randomness,
                                      region.assign),
                  chip |-> FoldStep(FFrom(GetByte(witness[2], KEY_START + offset)),
                                    randomness, region.chip)]
    /\ offset' = offset + 1
    /\ UNCHANGED <<witness, randomness, status, panic, tbl, row, is_s, out>>

NextFold == AssignLoopStep

SpecFold == InitFold /\ [][NextFold]_vars

(***************************************************************************)
(* The range lookups of LeafValueChip and AccountLeafStorageCodehashChip.  *)
(***************************************************************************)
\* FixedTableTag::Range256: the fixed table holds the values 0 .. 255
RANGE256 == 256
Range256Table == 0 .. (RANGE256 - 1)

\* the byte columns of a row: a column is <<name, index>>
s_advices == [j \in 1 .. HASH_WIDTH |-> <<"s_advices", j - 1>>]
c_advices == [j \in 1 .. HASH_WIDTH |-> <<"c_advices", j - 1>>]
ByteCols ==
    {<<"s_rlp1", 0>>, <<"s_rlp2", 0>>, <<"c_rlp1", 0>>, <<"c_rlp2", 0>>}
        \cup {s_advices[j] : j \in 1 .. HASH_WIDTH}
        \cup {c_advices[j] : j \in 1 .. HASH_WIDTH}

\* the columns the chip's RLC folds, in the order of the fold
CodehashFoldedCols == <<<<"s_rlp2", 0>>>> \o s_advices \o <<<<"c_rlp2", 0>>>> \o c_advices
LeafFoldedCols == <<<<"s_rlp1", 0>>, <<"s_rlp2", 0>>>> \o s_advices
FoldedCols(chip) == IF chip = "codehash" THEN CodehashFoldedCols ELSE LeafFoldedCols

\* the columns the chip passes to range_lookups, call by call
CodehashRangeCols == s_advices \o c_advices \o <<<<"s_rlp2", 0>>, <<"c_rlp2", 0>>>>
LeafRangeColsNoRlp == s_advices

LeafRangeCols == s_advices \o <<<<"s_rlp1", 0>>, <<"s_rlp2", 0>>>>
RangeCols(chip) == IF chip = "codehash" THEN CodehashRangeCols ELSE LeafRangeCols

\* range_lookups: for each column one lookup of q_enable * cell into the
\* Range256 rows of the fixed table
RangeLookupHolds(q, v) == (q * v) \in Range256Table
range_lookups(q, cols, cells) ==
    \A k \in 1 .. Len(cols) : RangeLookupHolds(q, cells[cols[k]])

\* The row of the model: all byte cells are zero except one, which holds a
\* value inside or outside the byte range. (The cells are the integers that
\* represent the field elements; the field is larger than every value.)
RangeVals == {0, 255, 256, 300}
RangeRow(chip, q, c, v) ==
    [chip |-> chip, q_enable |-> q,
     cells |-> [x \in ByteCols |-> IF x = c THEN v ELSE 0]]

InitRange ==
    /\ \E chip \in {"codehash", "leaf"}, q \in Bool, c \in ByteCols, v \in RangeVals :
          tbl = RangeRow(chip, q, c, v)
    /\ is_s \in BOOLEAN
    /\ row = 0
    /\ out = <<>>
    /\ status = "ready"
    /\ witness = <<>>
    /\ offset = 0
    /\ randomness = 0
    /\ region = <<>>
    /\ panic = "none"

\* the range lookups of the chip are evaluated at the row
VerifyRangeRow ==
    /\ status = "ready"
    /\ out' = [folded |-> {FoldedCols(tbl.chip)[k] : k \in 1 .. Len(FoldedCols(tbl.chip))},
               checked |-> {RangeCols(tbl.chip)[k] : k \in 1 .. Len(RangeCols(tbl.chip))},
               accepted |-> range_lookups(tbl.q_enable, RangeCols(tbl.chip), tbl.cells)]
    /\ status' = "verified"
    /\ UNCHANGED <<witness, offset, randomness, region, panic, tbl, row, is_s>>

NextRange == VerifyRangeRow

SpecRange == InitRange /\ [][NextRange]_vars

(***************************************************************************)
(* AccountNonExistingConfig::configure                                     *)
(***************************************************************************)
\* the table of the model: a branch (init row, 16 children, 2 extension
\* rows) followed by ACCOUNT_LEAF_KEY_S, ACCOUNT_LEAF_KEY_C and
\* ACCOUNT_NON_EXISTING
NonExistN == BRANCH_ROWS_NUM + ACCOUNT_NON_EXISTING_IND + 1
NonExistRows == 0 .. (NonExistN - 1)
NonExistRow == BRANCH_ROWS_NUM + ACCOUNT_NON_EXISTING_IND

\* let rot_first_branch = -(ACCOUNT_NON_EXISTING_IND - 1 + BRANCH_ROWS_NUM)
rot_first_branch == 0 - (ACCOUNT_NON_EXISTING_IND - 1 + BRANCH_ROWS_NUM)
\* let rot_branch_init = rot_first_branch - 1
rot_branch_init == rot_first_branch - 1

\* not(c), require!(x => bool) and the value of ifx!{c => {a} elsex {b}}
Not(c) == FSub(1, c)
RequireBool(x) == FMul(x, FSub(1, x))
Select(c, a, b) == FAdd(FMul(c, a), FMul(Not(c), b))

\* rlc::expr(expressions, powers): e0 + e1 * powers[0] + e2 * powers[1] + ...
\* (the terms lo .. hi of the sum over i >= 2; the range is halved to keep
\* TLC's evaluation shallow)
RECURSIVE RlcPowTerms(_, _, _, _)
RlcPowTerms(es, pows, lo, hi) ==
    IF lo > hi THEN 0
    ELSE IF lo = hi THEN FMul(es[lo], pows[lo - 1])
    ELSE LET mid == (lo + hi) \div 2 IN
         FAdd(RlcPowTerms(es, pows, lo, mid), RlcPowTerms(es, pows, mid + 1, hi))

RlcExprPowers(es, pows) ==
    LET n == IF Len(es) - 1 <= Len(pows) THEN Len(es) ELSE Len(pows) + 1
    IN  FAdd(es[1], RlcPowTerms(es, pows, 2, n))

\* ctx.r: the powers r, r^2, ... of the randomness
RPowers(r) == [i \in 1 .. HASH_WIDTH |-> FPow(r, i)]

\* BranchNodeInfo::new(meta, s_main, true, rot_branch_init): is_c1, is_c16
is_c1(t, R) == t.is_c1[Rot(NonExistN, R, rot_branch_init)]
is_c16(t, R) == t.is_c16[Rot(NonExistN, R, rot_branch_init)]

\* require!(is_wrong_leaf => bool)
IsWrongLeafBool(t, R) == RequireBool(MainCell(t.main, R, 0))

\* elsex { require!(is_wrong_leaf => false) }
NotProofConstraintDropped(t, R) == 0

NotProofConstraint(t, R) ==
    FMul(Not(t.is_non_existing_account_proof[R]), MainCell(t.main, R, 0))

\* let key_rlc = ifx!{a!(not_first_level) => { ... } elsex { ... }}
KeyRlcNoParity(t, R) ==
    LET key_rlc_prev == t.accs[Rot(NonExistN, R, rot_first_branch)]["key_rlc"]
        key_mult_prev == t.accs[Rot(NonExistN, R, rot_first_branch)]["key_mult"]
        key_mult == key_mult_prev
        terms == [k \in 1 .. (KEY_END - KEY_START) |->
                    IF k = 1
                    THEN FMul(FMul(FSub(MainCell(t.main, R, KEY_START), FFrom(48)),
                                   is_c16(t, R)), key_mult_prev)
                    ELSE FMul(MainCell(t.main, R, KEY_START + k - 1), key_mult)]
    IN  Select(t.not_first_level[R],
               FAdd(key_rlc_prev, RlcExprPowers(terms, <<1>> \o t.r)),
               RlcExprPowers([k \in 1 .. (KEY_END - KEY_START - 1) |->
                                 MainCell(t.main, R, KEY_START + k)], t.r))

key_rlc(t, R) ==
    LET key_rlc_prev == t.accs[Rot(NonExistN, R, rot_first_branch)]["key_rlc"]
        key_mult_prev == t.accs[Rot(NonExistN, R, rot_first_branch)]["key_mult"]
        key_mult == FMul(key_mult_prev, Select(is_c16(t, R), t.r[1], 1))
        terms == [k \in 1 .. (KEY_END - KEY_START) |->
                    IF k = 1
                    THEN FMul(FMul(FSub(MainCell(t.main, R, KEY_START), FFrom(48)),
                                   is_c16(t, R)), key_mult_prev)
                    ELSE FMul(MainCell(t.main, R, KEY_START + k - 1), key_mult)]
    IN  Select(t.not_first_level[R],
               FAdd(key_rlc_prev, RlcExprPowers(terms, <<1>> \o t.r)),
               RlcExprPowers([k \in 1 .. (KEY_END - KEY_START - 1) |->
                                 MainCell(t.main, R, KEY_START + k)], t.r))

\* require!(a!(s_main.bytes[0]) => a!(s_main.bytes[0], -1))
KeyLenConstraintSameRow(t, R) ==
    FSub(MainCell(t.main, R, 2), MainCell(t.main, R, 2))

KeyLenConstraint(t, R) ==
    FSub(MainCell(t.main, R, 2), MainCell(t.main, R - 1, 2))

\* require!(a!(sel1, rot_first_branch) => true)
NilConstraintAtInit(t, R) ==
    FSub(t.sel1[Rot(NonExistN, R, rot_branch_init)], 1)

NilConstraint(t, R) ==
    FSub(t.sel1[Rot(NonExistN, R, rot_first_branch)], 1)

\* The constraints of configure at row R, each multiplied by the conditions
\* of the ifx! blocks around it.
NonExistingConstraints(t, R, r) ==
    LET pt == t.is_non_existing_account_proof[R]
        is_wrong_leaf == MainCell(t.main, R, 0)
        nfl == t.not_first_level[R]
        wrong == FMul(pt, is_wrong_leaf)
        wl == add_wrong_leaf_constraints(t.main, t.accs, R, r)
    IN  [bool |-> IsWrongLeafBool(t, R),
         c1_bytes1 |-> FMul(FMul(FMul(wrong, nfl), is_c1(t, R)),
                            FSub(MainCell(t.main, R, KEY_START), FFrom(32))),
         first_level_bytes1 |-> FMul(FMul(wrong, Not(nfl)),
                                     FSub(MainCell(t.main, R, KEY_START), FFrom(32))),
         address_rlc |-> FMul(wrong, FSub(t.address_rlc[R], key_rlc(t, R))),
         rlc |-> FMul(wrong, wl[1]),
         rlc_prev |-> FMul(wrong, wl[2]),
         diff_inv |-> FMul(wrong, wl[3]),
         key_len |-> FMul(wrong, KeyLenConstraint(t, R)),
         nil |-> FMul(FMul(pt, Not(is_wrong_leaf)), NilConstraint(t, R)),
         not_proof |-> NotProofConstraint(t, R)]

ConstraintNames ==
    {"bool", "c1_bytes1", "first_level_bytes1", "address_rlc", "rlc", "rlc_prev",
     "diff_inv", "key_len", "nil", "not_proof"}

\* The table. Main rows: the ACCOUNT_LEAF_KEY_C row holds a key-length byte
\* and a first key byte, the ACCOUNT_NON_EXISTING row holds is_wrong_leaf,
\* the key-length byte 161 and the key bytes; both hold 1 at positions 4
\* and 35. The branch cells the constraints read are free, the other rows
\* of those columns hold other values.
NonExistMainRow(rlp1, len, e0) ==
    [i \in 1 .. ROW_LEN |->
        CASE i = 1 -> rlp1
          [] i = 3 -> len
          [] i = KEY_START + 1 -> e0
          [] i = KEY_START + 2 -> 1
          [] i = KEY_END -> 1
          [] OTHER -> 0]

NonExistMain(w, lp, e0, p0) ==
    [j \in 1 .. NonExistN |->
        IF j = NonExistRow + 1 THEN NonExistMainRow(w, 161, e0)
        ELSE IF j = NonExistRow THEN NonExistMainRow(0, lp, p0)
        ELSE <<>>]

\* the accumulator cells of the ACCOUNT_NON_EXISTING row: the sums of the 33
\* key positions of the two rows and the inverse of their difference,
\* computed as assign computes them, or other values
NonExistAccs(main, kp, assigned, r) ==
    LET st == LoopRange(0, KEY_END - KEY_START, main[NonExistRow + 1], main[NonExistRow],
                        r, <<0, 0, 1>>)
    IN  [j \in NonExistRows |->
           IF j = NonExistRow
           THEN IF assigned
                THEN [c \in Cols |->
                        CASE c = "key_rlc" -> st[1]
                          [] c = "key_mult" -> st[2]
                          [] c = "acc_s_rlc" -> DiffInv(st[1], st[2])
                          [] OTHER -> Unassigned]
                ELSE [c \in Cols |-> 5]
           ELSE IF j = 1
           THEN [c \in Cols |->
                        CASE c = "key_rlc" -> kp[1]
                          [] c = "key_mult" -> kp[2]
                          [] OTHER -> 0]
           ELSE [c \in Cols |-> 0]]

NonExistTable(pt, w, nfl, s1, c16, lp, e0, p0, kp, addr, assigned, r) ==
    [is_non_existing_account_proof |-> [j \in NonExistRows |-> IF j = NonExistRow THEN pt ELSE 0],
     not_first_level |-> [j \in NonExistRows |-> nfl],
     sel1 |-> [j \in NonExistRows |-> IF j >= 1 /\ j <= LastChildA THEN s1 ELSE 0],
     is_c16 |-> [j \in NonExistRows |-> IF j = 0 THEN c16 ELSE 0],
     is_c1 |-> [j \in NonExistRows |-> IF j = 0 THEN 1 - c16 ELSE 0],
     address_rlc |-> [j \in NonExistRows |-> addr],
     r |-> RPowers(r),
     main |-> NonExistMain(w, lp, e0, p0),
     accs |-> NonExistAccs(NonExistMain(w, lp, e0, p0), kp, assigned, r)]

InitNonExisting ==
    /\ randomness = 3
    /\ \E pt \in Bool, w \in {0, 1, 2}, nfl \in Bool, s1 \in Bool, c16 \in Bool,
          lp \in {161, 129}, e0 \in {32, 50}, p0 \in {49},
          kp \in {<<0, 1>>, <<2, 3>>}, addr \in Field, assigned \in BOOLEAN :
          tbl = NonExistTable(pt, w, nfl, s1, c16, lp, e0, p0, kp, addr, assigned,
                              randomness)
    /\ row = 0
    /\ is_s = TRUE
    /\ out = <<>>
    /\ status = "ready"
    /\ witness = <<>>
    /\ offset = 0
    /\ region = <<>>
    /\ panic = "none"

\* the constraints are evaluated at the ACCOUNT_NON_EXISTING row; the row
\* is accepted when every constraint is zero
VerifyNonExistingRow ==
    /\ status = "ready"
    /\ row' = NonExistRow
    /\ out' = LET cs == NonExistingConstraints(tbl, NonExistRow, randomness)
               IN  [constraints |-> cs,
                    accepted |-> \A c \in ConstraintNames : cs[c] = 0]
    /\ status' = "verified"
    /\ UNCHANGED <<witness, offset, randomness, region, panic, tbl, is_s>>

NextNonExisting == VerifyNonExistingRow

SpecNonExisting == InitNonExisting /\ [][NextNonExisting]_vars

(***************************************************************************)
(* MainnetFork (evm-testvectors utils)                                     *)
(***************************************************************************)
\* A string is a sequence of tokens: ">=" is the two characters of the
\* prefix, every other token is a run of other characters.
\* enum MainnetFork: the discriminants
MainnetFork ==
    [Merge |-> 14, GrayGlacier |-> 13, ArrowGlacier |-> 12, Altair |-> 11,
     London |-> 10, Berlin |-> 9, MuirGlacier |-> 8, Istanbul |-> 7,
     Constantinople |-> 6, Byzantium |-> 5, SpuriousDragon |-> 4,
     TangerineWhistle |-> 3, Homestead |-> 2, Frontier |-> 1]

\* pub const TEST_FORK: MainnetFork = MainnetFork::Merge
TEST_FORK == MainnetFork.Merge

\* the arms of the match of from_str
FromStrArms ==
    {<<"Merge", MainnetFork.Merge>>,
     <<"Gray Glacier", MainnetFork.GrayGlacier>>,
     <<"Arrow Glacier", MainnetFork.ArrowGlacier>>,
     <<"Altair", MainnetFork.Altair>>,
     <<"London", MainnetFork.London>>,
     <<"Berlin", MainnetFork.Berlin>>,
     <<"Muir Glacier", MainnetFork.MuirGlacier>>,
     <<"Istanbul", MainnetFork.Istanbul>>,
     <<"Constantinople", MainnetFork.Constantinople>>,
     <<"Byzantium", MainnetFork.Byzantium>>,
     <<"Spurious Dragon", MainnetFork.SpuriousDragon>>,
     <<"TangeringWhistle", MainnetFork.TangerineWhistle>>,
     <<"Homestead", MainnetFork.Homestead>>,
     <<"Frontier", MainnetFork.Frontier>>}

Ok(v) == [ok |-> TRUE, value |-> v, err |-> <<>>]
Err(e) == [ok |-> FALSE, value |-> FALSE, err |-> e]

\* MainnetFork::from_str
from_str(str) ==
    IF Len(str) = 1 /\ \E arm \in FromStrArms : arm[1] = str[1]
    THEN Ok((CHOOSE arm \in FromStrArms : arm[1] = str[1])[2])
    ELSE Err(<<"Unknown network '">> \o str \o <<"'">>)

\* str::strip_prefix(">=")
strip_prefix(str) ==
    IF Len(str) >= 1 /\ str[1] = ">=" THEN [some |-> TRUE, rest |-> Tail(str)]
    ELSE [some |-> FALSE, rest |-> <<>>]

\* PartialOrd / PartialEq of MainnetFork: by discriminant
ForkGeReversed(a, b) == a <= b

ForkGe(a, b) == a >= b
ForkEq(a, b) == a = b

\* for network in expect { ... }: the entries from index i on, with the
\* in_network flag so far; the ? operator returns the error at once
RECURSIVE NetworkLoop(_, _, _)
NetworkLoop(expect, i, in_network) ==
    IF i > Len(expect) THEN Ok(in_network)
    ELSE LET stripped == strip_prefix(expect[i])
             parsed == IF stripped.some THEN from_str(stripped.rest)
                       ELSE from_str(expect[i])
         IN  IF ~parsed.ok THEN parsed
             ELSE IF stripped.some
             THEN NetworkLoop(expect, i + 1,
                              IF ForkGe(TEST_FORK, parsed.value) THEN TRUE ELSE in_network)
             ELSE NetworkLoop(expect, i + 1,
                              IF ForkEq(TEST_FORK, parsed.value) THEN TRUE ELSE in_network)

\* MainnetFork::in_network_range
InNetworkRangeFirstOnly(expect) ==
    IF expect = <<>> THEN Ok(TRUE) ELSE NetworkLoop(<<expect[1]>>, 1, FALSE)

in_network_range(expect) ==
    IF expect = <<>> THEN Ok(TRUE) ELSE NetworkLoop(expect, 1, FALSE)

\* the entries the model draws and the longest list
NetworkEntries ==
    {<<"Merge">>, <<"Istanbul">>, <<">=", "Istanbul">>, <<">=", "Merge">>,
     <<">=", "Frontier">>, <<"TangerineWhistle">>, <<">=", "TangeringWhistle">>,
     <<"Gray Glacier">>, <<">=", ">=", "Merge">>, <<>>, <<">=">>,
     <<"Arrow Glacier">>, <<"Altair">>, <<"London">>, <<"Berlin">>,
     <<"Muir Glacier">>, <<"Constantinople">>, <<"Byzantium">>,
     <<"Spurious Dragon">>, <<"TangeringWhistle">>, <<"Homestead">>,
     <<"Frontier">>, <<"merge">>, <<"GrayGlacier">>, <<"Merge", ">=">>}
MaxExpect == 2
ExpectLists == UNION {[1 .. n -> NetworkEntries] : n \in 0 .. MaxExpect}

InitFork ==
    /\ witness \in ExpectLists
    /\ status = "ready"
    /\ out = <<>>
    /\ offset = 0
    /\ randomness = 0
    /\ region = <<>>
    /\ panic = "none"
    /\ tbl = NoTable
    /\ row = 0
    /\ is_s = TRUE

\* one call of in_network_range(expect)
InNetworkRange ==
    /\ status = "ready"
    /\ out' = in_network_range(witness)
    /\ status' = "returned"
    /\ UNCHANGED <<witness, offset, randomness, region, panic, tbl, row, is_s>>

\* one call of MainnetFork::from_str(s), s the first entry of the list
FromStr ==
    /\ status = "ready"
    /\ Len(witness) >= 1
    /\ out' = from_str(witness[1])
    /\ status' = "parsed"
    /\ UNCHANGED <<witness, offset, randomness, region, panic, tbl, row, is_s>>

NextFork == InNetworkRange \/ FromStr

SpecFork == InitFork /\ [][NextFork]_vars

(***************************************************************************)
(* Claims about the account-non-existing row.                              *)
(***************************************************************************)
\* the rows assign reads: leaf_key_c and row
PrevRow == witness[offset - (ACCOUNT_NON_EXISTING_IND - ACCOUNT_LEAF_KEY_C_IND) + 1]
CurRow == witness[offset + 1]
\* the RLC of the first k key bytes of a row, as a sum of powers
KeyRlc(rw, k) == RlcExpr([i \in 1 .. k |-> FFrom(GetByte(rw, KEY_START + i - 1))], randomness)
\* the key length assign derives from the ACCOUNT_LEAF_KEY_C row
KeyLen == GetByte(PrevRow, 2) - 128

\* C1: over the field, a diff_inv with (rlc - rlc_prev) * diff_inv = 1
\* exists if and only if the stored rlc and rlc_prev differ; when they are
\* equal the stored diff_inv, whatever it is, fails the constraint.
C1_NonZeroDiffGadget ==
    status = "forged" =>
        LET a == Cell(region, offset, "key_rlc")
            b == Cell(region, offset, "key_mult")
        IN  /\ (\E x \in Field : NonZeroDiff(a, b, x) = 0) <=> (a # b)
            /\ a = b =>
                  add_wrong_leaf_constraints(witness, region, offset, randomness)[3] # 0

C1_Witness ==
    /\ status = "forged"
    /\ Cell(region, offset, "key_rlc") = Cell(region, offset, "key_mult")
    /\ Cell(region, offset, "key_rlc") = 3
    /\ Cell(region, offset, "acc_s_rlc") = 5

\* C2: assign writes zero as diff_inv when the two key sums are equal and
\* the inverse of (sum - sum_prev) otherwise, so (sum - sum_prev) * diff_inv
\* is 0 for equal sums and 1 for different ones; the inversion never fails.
C2_AssignDiffInv ==
    /\ panic # "unwrap"
    /\ status = "assigned" =>
        LET s == KeyRlc(CurRow, KeyLen)
            sp == KeyRlc(PrevRow, KeyLen)
            d == region[offset]["acc_s_rlc"]
        IN  /\ d \in Field
            /\ s = sp => d = 0 /\ FMul(FSub(s, sp), d) = 0
            /\ s # sp => FMul(FSub(s, sp), d) = 1

C2_Witness ==
    /\ status = "assigned"
    /\ CurRow # PrevRow
    /\ KeyLen = 1
    /\ KeyRlc(CurRow, KeyLen) = KeyRlc(PrevRow, KeyLen)
    /\ region[offset]["acc_s_rlc"] = 0

\* C3: when both rows carry the key-length byte 128 + k (0 <= k <= 33), are
\* zero at positions 3+k .. 35 and their k key bytes have different RLCs,
\* the cells assign writes satisfy the three wrong-leaf constraints.
C3_Pre ==
    /\ GetByte(CurRow, 2) = GetByte(PrevRow, 2)
    /\ KeyLen >= 0 /\ KeyLen <= KEY_END - KEY_START
    /\ \A i \in (KEY_START + KeyLen) .. (KEY_END - 1) :
          GetByte(CurRow, i) = 0 /\ GetByte(PrevRow, i) = 0
    /\ KeyRlc(CurRow, KeyLen) # KeyRlc(PrevRow, KeyLen)

C4_AssignNeverPanics == status # "panic"

(***************************************************************************)
(* Claims about the branch hash-in-parent lookups.                         *)
(***************************************************************************)
\* the placeholder flag of the chip's half, in the init row of the branch
\* whose last child is row
PlaceholderFlag ==
    IF is_s THEN tbl.is_branch_s_placeholder[Rot(BranchN, row, -16)]
    ELSE tbl.is_branch_c_placeholder[Rot(BranchN, row, -16)]
ExtensionFlag == tbl.is_extension_node[Rot(BranchN, row, -16)]
AccountLeafFlag == tbl.is_account_leaf_in_added_branch[Rot(BranchN, row, -17)]
BranchAccValue == (tbl.acc[row] + 128 * tbl.acc_mult[row]) % P

\* C5: at the last child row of a placeholder branch both lookups have the
\* all-zero input tuple, whatever acc, acc_mult, inter_root,
\* mod_node_hash_rlc and not_first_level are.
C5_PlaceholderSkipsBothLookups ==
    (status = "verified" /\ tbl.is_last_branch_child[row] = 1 /\ PlaceholderFlag = 1) =>
        (out.first = <<0, 0>> /\ out.parent = <<0, 0>>)

\* C6: the input of the branch_hash_in_parent lookup is (0, 0) when the row
\* is not a last branch child, or not_first_level = 0, or the branch is a
\* placeholder or an extension node, or the row at -17 is an account leaf;
\* otherwise it is (acc + 128 * acc_mult, mod_node_hash_rlc at -19), which
\* must be a row of the Keccak table.
C6_Skip ==
    \/ tbl.is_last_branch_child[row] = 0
    \/ tbl.not_first_level[row] = 0
    \/ PlaceholderFlag = 1
    \/ ExtensionFlag = 1
    \/ AccountLeafFlag = 1

C6_ParentLookupInput ==
    status = "verified" =>
        /\ C6_Skip => out.parent = <<0, 0>>
        /\ ~C6_Skip =>
             /\ out.parent = <<BranchAccValue,
                               tbl.mod_node_hash_rlc[Rot(BranchN, row, -19)]>>
             /\ out.parent_ok <=> (out.parent \in KeccakTable)

C6_Witness ==
    /\ status = "verified"
    /\ ~C6_Skip
    /\ out.parent = <<1, 2>>
    /\ ~out.parent_ok

\* C7: at the last child row of a branch that is no placeholder, no
\* extension node and not under an account leaf, with q_not_first = 1,
\* exactly one of the two lookups is enabled: the comparison to the root
\* when not_first_level = 0, the comparison to the parent when it is 1.
C7_Pre ==
    /\ status = "verified"
    /\ tbl.is_last_branch_child[row] = 1
    /\ tbl.q_not_first[row] = 1
    /\ PlaceholderFlag = 0
    /\ ExtensionFlag = 0
    /\ AccountLeafFlag = 0
    /\ tbl.not_first_level[row] \in {0, 1}

C7_ExactlyOneLookup ==
    C7_Pre =>
        /\ (out.first_sel # 0) # (out.parent_sel # 0)
        /\ tbl.not_first_level[row] = 0 => out.first_sel # 0
        /\ tbl.not_first_level[row] = 1 => out.parent_sel # 0

C7_Witness ==
    /\ C7_Pre
    /\ tbl.not_first_level[row] = 1
    /\ out.parent_sel = 1
    /\ out.first_sel = 0
    /\ out.parent = <<3, 2>>

(***************************************************************************)
(* Claims about the leaf value lookups.                                    *)
(***************************************************************************)
LeafSel == tbl.sel[Rot(LeafN, row, -6)]
LeafPlaceholderFlag == tbl.is_branch_placeholder[Rot(LeafN, row, IF is_s THEN -20 ELSE -22)]
LeafWithoutBranchNormal ==
    tbl.is_account_leaf_storage_codehash_c[Rot(LeafN, row, IF is_s THEN -1 ELSE -2)]
LeafWithoutBranchPlaceholder ==
    tbl.is_account_leaf_storage_codehash_c[Rot(LeafN, row, IF is_s THEN -21 ELSE -23)]
ZeroTuple == [j \in 1 .. (1 + KECCAK_OUTPUT_WIDTH) |-> 0]
\* the RLC of the leaf row as a sum of powers of acc_r
LeafRlcSum ==
    LET prev == Rot(LeafN, row, -1)
        cells == <<tbl.s_rlp1[row], tbl.s_rlp2[row]>> \o tbl.s_advices[row]
    IN  FAdd(tbl.acc[prev], FMul(tbl.acc_mult[prev], RlcExpr(cells, randomness)))

\* C8: when sel at rotation -6 is 1, both lookups have the all-zero input
\* tuple, whatever the leaf bytes, the accumulator and the placeholder flag.
C8_SelSuppressesBothLookups ==
    (status = "verified" /\ LeafSel = 1) =>
        (out.normal = ZeroTuple /\ out.placeholder = ZeroTuple)

C8_Witness ==
    /\ status = "verified"
    /\ LeafSel = 1
    /\ row = LeafRow
    /\ tbl.q_enable[row] = 1
    /\ LeafPlaceholderFlag = 1
    /\ LeafWithoutBranchPlaceholder = 0
    /\ tbl.sc_keccak[Rot(LeafN, row, IF is_s THEN -23 ELSE -25)][1] # 0

\* C9: with q_enable = 1, sel = 0 and the leaf-without-branch flags 0,
\* exactly one lookup is enabled: for placeholder flag 0 the leaf RLC is
\* looked up with the sc_keccak words at rotation -6, for flag 1 with those
\* at rotation rot_into_init - 3; the RLC input is the same in both.
C9_Pre ==
    /\ status = "verified"
    /\ tbl.q_enable[row] = 1
    /\ LeafSel = 0
    /\ LeafWithoutBranchNormal = 0
    /\ LeafWithoutBranchPlaceholder = 0
    /\ LeafPlaceholderFlag \in {0, 1}

C9_LookupSelectedByPlaceholder ==
    C9_Pre =>
        /\ (out.normal_sel # 0) # (out.placeholder_sel # 0)
        /\ LeafPlaceholderFlag = 0 =>
             /\ out.normal =
                   <<LeafRlcSum>> \o tbl.sc_keccak[Rot(LeafN, row, -6)]
             /\ out.placeholder = ZeroTuple
        /\ LeafPlaceholderFlag = 1 =>
             /\ out.placeholder =
                   <<LeafRlcSum>> \o
                   tbl.sc_keccak[Rot(LeafN, row, IF is_s THEN -23 ELSE -25)]
             /\ out.normal = ZeroTuple

C9_Witness ==
    /\ C9_Pre
    /\ LeafPlaceholderFlag = 1
    /\ ~is_s
    /\ tbl.sc_keccak[Rot(LeafN, row, -25)] # tbl.sc_keccak[Rot(LeafN, row, -6)]
    /\ out.placeholder[1] # 0
    /\ out.placeholder[2] # 0

(***************************************************************************)
(* Claims about the account leaf storage/codehash gate.                    *)
(***************************************************************************)
\* sum over i = 0 .. n-1 of v[i + 1] * r^(e + i)
RECURSIVE PowerSum(_, _, _, _, _)
PowerSum(v, r, e, lo, hi) ==
    IF lo > hi THEN 0
    ELSE IF lo = hi THEN FMul(v[lo + 1], FPow(r, e + lo))
    ELSE LET mid == (lo + hi) \div 2 IN
         FAdd(PowerSum(v, r, e, lo, mid), PowerSum(v, r, e, mid + 1, hi))

\* acc(rot) + acc_mult(rot) * ( s_rlp2 + sum s_advices[i] * r^(i+1)
\*                             + c_rlp2 * r^33 + sum c_advices[i] * r^(34+i) )
C10_Expected ==
    LET prev == Rot(CodehashN, row, IF is_s THEN -1 ELSE -2)
        r == randomness
        inner == (tbl.s_rlp2[row]
                  + PowerSum(tbl.s_advices[row], r, 1, 0, 31)
                  + tbl.c_rlp2[row] * FPow(r, 33)
                  + PowerSum(tbl.c_advices[row], r, 34, 0, 31)) % P
    IN  (tbl.acc[prev] + tbl.acc_mult[prev] * inner) % P

\* C10: on an enabled row the gate holds only if acc at the current row is
\* acc(rot) + acc_mult(rot) * (the RLC of s_rlp2, s_advices, c_rlp2,
\* c_advices), rot = -1 for S and -2 for C; any other acc is rejected.
C10_AccContinuesRlc ==
    (status = "verified" /\ tbl.q_enable[row] # 0) =>
        /\ (out.gate[3] = 0) <=> (tbl.acc[row] = C10_Expected)
        /\ tbl.acc[row] # C10_Expected => ~out.accepted

C10_Witness ==
    /\ status = "verified"
    /\ tbl.q_enable[row] = 2
    /\ ~is_s
    /\ tbl.s_advices[row][HASH_WIDTH] = 1
    /\ tbl.c_advices[row][HASH_WIDTH] = 1
    /\ tbl.acc[row] = C10_Expected
    /\ tbl.acc[row] # tbl.acc[Rot(CodehashN, row, -2)]
    /\ out.accepted

\* C11: on a row with q_enable # 0 the first two constraints of the gate
\* are zero exactly when s_rlp2, respectively c_rlp2, is the field constant
\* 160, and any other value in either cell rejects the row; on a row with
\* q_enable = 0 both constraints are zero whatever the two cells hold.
C11_RlpPrefixIs160 ==
    status = "verified" =>
        /\ tbl.q_enable[row] # 0 =>
             /\ (out.gate[1] = 0) <=> (tbl.s_rlp2[row] = 160 % P)
             /\ (out.gate[2] = 0) <=> (tbl.c_rlp2[row] = 160 % P)
             /\ (tbl.s_rlp2[row] # 160 % P \/ tbl.c_rlp2[row] # 160 % P)
                    => ~out.accepted
        /\ tbl.q_enable[row] = 0 => (out.gate[1] = 0 /\ out.gate[2] = 0)

C11_Witness ==
    /\ status = "verified"
    /\ tbl.q_enable[row] = 2
    /\ tbl.s_rlp2[row] = 160 % P
    /\ tbl.c_rlp2[row] = 159 % P
    /\ tbl.acc[row] = C10_Expected
    /\ out.gate = <<0, FMul(2, FSub(159 % P, 160 % P)), 0>>
    /\ ~out.accepted

\* C18: on an enabled row that the gate accepts, acc_mult at the current
\* row is the next unused power of r: acc_mult(rot) * r^66, rot = -1 for S
\* and -2 for C; any other acc_mult is rejected.
C18_AccMultNextPower ==
    (status = "verified" /\ tbl.q_enable[row] # 0 /\ out.accepted) =>
        tbl.acc_mult[row] =
            (tbl.acc_mult[Rot(CodehashN, row, IF is_s THEN -1 ELSE -2)]
                * FPow(randomness, 2 * (1 + HASH_WIDTH))) % P

(***************************************************************************)
(* Claims about the range lookups.                                         *)
(***************************************************************************)
\* the byte columns the claim lists for a chip
C12_Listed ==
    IF tbl.chip = "codehash"
    THEN {<<"s_rlp2", 0>>, <<"c_rlp2", 0>>}
            \cup {<<"s_advices", j>> : j \in 0 .. 31}
            \cup {<<"c_advices", j>> : j \in 0 .. 31}
    ELSE {<<"s_rlp1", 0>>, <<"s_rlp2", 0>>} \cup {<<"s_advices", j>> : j \in 0 .. 31}

\* C12: in both chips the set of columns folded into the RLC is the set of
\* columns passed to the Range256 lookups (66 columns in the storage/codehash
\* chip, 34 in the leaf value chip), and on an enabled row a folded cell
\* outside 0 .. 255 is rejected.
C12_RangeCheckCompleteness ==
    status = "verified" =>
        /\ out.folded = C12_Listed
        /\ out.checked = out.folded
        /\ Cardinality(out.folded) = (IF tbl.chip = "codehash" THEN 66 ELSE 34)
        /\ (tbl.q_enable = 1 /\ \E c \in out.folded : tbl.cells[c] \notin 0 .. 255)
              => ~out.accepted

C12_Witness ==
    /\ status = "verified"
    /\ tbl.chip = "leaf"
    /\ tbl.q_enable = 1
    /\ tbl.cells[<<"s_rlp1", 0>>] = 256
    /\ ~out.accepted

(***************************************************************************)
(* Claims about RLC folding.                                               *)
(***************************************************************************)
\* byte k (from 0) of the two sequences folded
FoldByteA(k) == GetByte(witness[2], KEY_START + k)
FoldByteB(k) == GetByte(witness[1], KEY_START + k)
\* the first index at which the two sequences differ (FoldLen if none)
FirstDiff ==
    IF \A k \in 0 .. (FoldLen - 1) : FoldByteA(k) = FoldByteB(k) THEN FoldLen
    ELSE CHOOSE k \in 0 .. (FoldLen - 1) :
            /\ FoldByteA(k) # FoldByteB(k)
            /\ \A j \in 0 .. (k - 1) : FoldByteA(j) = FoldByteB(j)
\* b0 + b1*r + ... + b(n-1)*r^(n-1)
FoldSumA(n) == PowerSum([k \in 1 .. FoldLen |-> FoldByteA(k - 1) % P], randomness, 0, 0, n - 1)
FoldSumB(n) == PowerSum([k \in 1 .. FoldLen |-> FoldByteB(k - 1) % P], randomness, 0, 0, n - 1)

\* C13: after n iterations the accumulators of assign (and of a chip's
\* fold) are b0 + b1*r + ... + b(n-1)*r^(n-1) and mult is r^n; for r # 0 the
\* accumulators of the two sequences are equal up to the first differing
\* index and differ right after the step that folds it.
C13_FoldIsPowerSum ==
    status = "folding" =>
        /\ region.assign = <<FoldSumA(offset), FoldSumB(offset), FPow(randomness, offset)>>
        /\ region.chip = <<FoldSumA(offset), FPow(randomness, offset)>>
        /\ randomness # 0 =>
             /\ offset <= FirstDiff => region.assign[1] = region.assign[2]
             /\ offset = FirstDiff + 1 => region.assign[1] # region.assign[2]

C13_Witness ==
    /\ status = "folding"
    /\ randomness = 3
    /\ FirstDiff = 1
    /\ offset = FirstDiff + 1
    /\ FoldByteA(0) = P - 1
    /\ FoldByteA(1) = 1 /\ FoldByteB(1) = P - 1
    /\ region.assign[1] # region.assign[2]

(***************************************************************************)
(* Claims about the constraints of the account-non-existing row.           *)
(***************************************************************************)
\* the cells configure reads, by their place in the table
NE_ProofType == tbl.is_non_existing_account_proof[row]
NE_IsWrongLeaf == tbl.main[row + 1][1] % P
NE_Byte(k) == tbl.main[row + 1][k + 1] % P
NE_PrevByte(k) == tbl.main[row][k + 1] % P
NE_FirstChild == tbl.accs[row - 20]
NE_Init == row - 21
NE_WrongLeafCase == status = "verified" /\ NE_ProofType = 1 /\ NE_IsWrongLeaf = 1

\* C14: an accepted row has is_wrong_leaf in {0, 1}, and 0 when the proof
\* type is not the non-existing-account proof; a value other than 0 and 1
\* fails the boolean constraint and the value 1 outside the proof type
\* fails the constraint of the elsex block.
C14_IsWrongLeafBoolean ==
    status = "verified" =>
        /\ out.accepted =>
              /\ NE_IsWrongLeaf \in {0, 1}
              /\ NE_ProofType = 0 => NE_IsWrongLeaf = 0
        /\ NE_IsWrongLeaf \notin {0, 1} => out.constraints.bool # 0
        /\ (NE_ProofType = 0 /\ NE_IsWrongLeaf = 1) => out.constraints.not_proof # 0

C14_Witness ==
    /\ status = "verified"
    /\ NE_ProofType = 0
    /\ NE_IsWrongLeaf = 1
    /\ out.constraints.bool = 0
    /\ out.constraints.not_proof = 1
    /\ \A c \in ConstraintNames \ {"not_proof"} : out.constraints[c] = 0
    /\ ~out.accepted

\* the key RLC the claim states, from e[0..32] = the bytes at positions
\* 3 .. 35 of the row
C15_KeyMult ==
    IF tbl.is_c16[NE_Init] = 1 THEN NE_FirstChild["key_mult"] * randomness
    ELSE NE_FirstChild["key_mult"]
C15_Tail(m) ==
    PowerSum([i \in 1 .. 32 |-> (NE_Byte(KEY_START + i) * m) % P], randomness, 0, 0, 31)
C15_Expected ==
    IF tbl.not_first_level[row] = 1
    THEN (NE_FirstChild["key_rlc"]
            + (NE_Byte(KEY_START) + P - (48 % P)) * tbl.is_c16[NE_Init]
                  * NE_FirstChild["key_mult"]
            + C15_Tail(C15_KeyMult)) % P
    ELSE C15_Tail(1)
C15_Byte32Required ==
    \/ tbl.not_first_level[row] = 0
    \/ tbl.is_c1[NE_Init] = 1

C16_KeyLenEquality ==
    NE_WrongLeafCase =>
        /\ (out.constraints.key_len = 0) <=> (NE_Byte(2) = NE_PrevByte(2))
        /\ NE_Byte(2) # NE_PrevByte(2) => ~out.accepted

C16_Witness ==
    /\ NE_WrongLeafCase
    /\ tbl.main[row + 1][3] = 161
    /\ tbl.main[row][3] = 129
    /\ tbl.accs[row]["key_rlc"] # tbl.accs[row]["key_mult"]
    /\ (tbl.accs[row]["key_rlc"] - tbl.accs[row]["key_mult"] + P)
          * tbl.accs[row]["acc_s_rlc"] % P = 1
    /\ \A c \in ConstraintNames \ {"key_len"} : out.constraints[c] = 0
    /\ out.constraints.key_len # 0
    /\ ~out.accepted

\* C17: with the non-existing-account proof type and is_wrong_leaf = 0 the
\* row is accepted exactly when sel1 is 1 at rotation -20, which from the
\* ACCOUNT_NON_EXISTING row is the first child row of the branch above;
\* none of the wrong-leaf constraints is enforced, whatever the cells hold.
C17_NilBranchNeedsSel1 ==
    (status = "verified" /\ NE_ProofType = 1 /\ NE_IsWrongLeaf = 0) =>
        /\ rot_first_branch = 0 - 20
        /\ row + rot_first_branch = 1
        /\ out.accepted <=> (tbl.sel1[row - 20] = 1)
        /\ \A c \in {"c1_bytes1", "first_level_bytes1", "address_rlc", "rlc",
                       "rlc_prev", "diff_inv", "key_len"} : out.constraints[c] = 0

C17_Witness ==
    /\ status = "verified"
    /\ NE_ProofType = 1
    /\ NE_IsWrongLeaf = 0
    /\ tbl.sel1[row - 20] = 1
    /\ tbl.accs[row]["acc_s_rlc"] = 5
    /\ tbl.accs[row]["key_rlc"] = tbl.accs[row]["key_mult"]
    /\ tbl.main[row + 1][3] # tbl.main[row][3]
    /\ tbl.address_rlc[row] # C15_Expected
    /\ out.accepted

(***************************************************************************)
(* Claims about MainnetFork.                                               *)
(***************************************************************************)
\* the forks in their order, by the names from_str accepts
C19_Order ==
    <<"Frontier", "Homestead", "TangeringWhistle", "Spurious Dragon", "Byzantium",
      "Constantinople", "Istanbul", "Muir Glacier", "Berlin", "London", "Altair",
      "Arrow Glacier", "Gray Glacier", "Merge">>
C19_Pos(name) == CHOOSE k \in 1 .. Len(C19_Order) : C19_Order[k] = name
C19_IsName(name) == \E k \in 1 .. Len(C19_Order) : C19_Order[k] = name
C19_Valid(entry) ==
    \/ Len(entry) = 1 /\ C19_IsName(entry[1])
    \/ Len(entry) = 2 /\ entry[1] = ">=" /\ C19_IsName(entry[2])
C19_Matches(entry) ==
    \/ Len(entry) = 2 /\ C19_Pos("Merge") >= C19_Pos(entry[2])
    \/ Len(entry) = 1 /\ entry[1] = "Merge"

\* C19: in_network_range gives Ok(true) for the empty list; for a non-empty
\* list of valid fork names it gives Ok(true) if some entry is ">=X" with
\* Merge at or after X, or is "Merge" itself, and Ok(false) otherwise;
\* [">=Istanbul"] gives Ok(true).
C19_InNetworkRange ==
    status = "returned" =>
        /\ witness = <<>> => out = [ok |-> TRUE, value |-> TRUE, err |-> <<>>]
        /\ (witness # <<>> /\ \A i \in 1 .. Len(witness) : C19_Valid(witness[i])) =>
              /\ out.ok
              /\ out.value <=> (\E i \in 1 .. Len(witness) : C19_Matches(witness[i]))
        /\ witness = << <<">=", "Istanbul">> >> => (out.ok /\ out.value)

C19_Witness ==
    /\ status = "returned"
    /\ witness = << <<">=", "Istanbul">> >>
    /\ out.ok
    /\ out.value

\* an entry without its leading ">=", and whether from_str accepts the rest
C21_Stripped(entry) ==
    IF Len(entry) >= 1 /\ entry[1] = ">=" THEN Tail(entry) ELSE entry
C21_Accepted(str) == Len(str) = 1 /\ C19_IsName(str[1])
C21_Message(str) == <<"Unknown network '">> \o str \o <<"'">>
C21_Bad == {i \in 1 .. Len(witness) : ~C21_Accepted(C21_Stripped(witness[i]))}
C21_FirstBad == CHOOSE i \in C21_Bad : \A j \in C21_Bad : i <= j

\* C21: in_network_range returns an error when some entry, without its
\* leading ">=", is not one of the 14 strings from_str accepts, also when an
\* earlier entry matched (the error names the first such entry); from_str
\* accepts the 14 literals, each giving its own fork, and returns
\* "Unknown network '<s>'" for every other string.
C21_UnknownNetworkIsError ==
    /\ (status = "returned" /\ C21_Bad # {}) =>
          /\ ~out.ok
          /\ out.err = C21_Message(C21_Stripped(witness[C21_FirstBad]))
    /\ status = "parsed" =>
          IF C21_Accepted(witness[1])
          THEN out.ok /\ out.err = <<>> /\ out.value = C19_Pos(witness[1][1])
          ELSE ~out.ok /\ out.err = C21_Message(witness[1])

C21_Witness ==
    /\ status = "returned"
    /\ witness = << <<"Merge">>, <<"TangerineWhistle">> >>
    /\ ~out.ok
    /\ out.err = <<"Unknown network '", "TangerineWhistle", "'">>

(***************************************************************************)
(* Claims about the row the parent lookup reads its hash from.             *)
(***************************************************************************)
\* the block before the one whose last child is row: its init row and its
\* last child row
C20_PrevInit == row - LastChildA - BRANCH_ROWS_NUM
C20_PrevLastChild == row - BRANCH_ROWS_NUM
\* row is the last child row of a branch with its parent block right above,
\* and the parent lookup is not skipped
C20_Pre ==
    /\ status = "verified"
    /\ row = LastChildB
    /\ tbl.is_last_branch_child[row] = 1
    /\ out.parent_sel = 1

\* C20 as stated: the hash of the parent lookup is the mod_node_hash_rlc
\* cell of the init row of the preceding branch block.
C20_ReadsInitRow ==
    C20_Pre =>
        /\ Rot(BranchN, row, -19) = C20_PrevInit
        /\ out.parent[2] = tbl.mod_node_hash_rlc[C20_PrevInit]

\* C20: the hash of the parent lookup is read at rotation -19 from the last
\* child row, which is the last child row of the preceding branch block (3
\* rows above the init row of the current block, 16 rows below the init row
\* of the preceding one), and the lookup takes the mod_node_hash_rlc cell of
\* that row.
C20_ReadsPrevLastChild ==
    C20_Pre =>
        /\ Rot(BranchN, row, -19) = C20_PrevLastChild
        /\ tbl.is_last_branch_child[C20_PrevLastChild] = 1
        /\ out.parent[2] = tbl.mod_node_hash_rlc[C20_PrevLastChild]

C20_Witness ==
    /\ C20_Pre
    /\ out.parent[2] = 2
    /\ tbl.mod_node_hash_rlc[C20_PrevLastChild] = 2
    /\ tbl.mod_node_hash_rlc[C20_PrevInit] = 0

(***************************************************************************)
(* Claims about the cells assign writes.                                   *)
(***************************************************************************)
\* the two rows assign reads, their key length, and the sums of the key
\* bytes of each with the powers of the randomness
C22_LeafKeyC == witness[offset]
C22_Row == witness[offset + 1]
C22_KeyLen == C22_LeafKeyC[3] - 128
C22_Sum(r) == RlcExpr([k \in 1 .. C22_KeyLen |-> FFrom(r[KEY_START + k])], randomness)
C22_Flag == C22_Row[ROW_LEN - 2]
C22_Written ==
    IF C22_Flag = 1 THEN {"key_rlc", "key_mult", "acc_s_rlc", "proof_type"}
    ELSE {"key_rlc", "key_mult", "acc_s_rlc"}

\* C22: a call of assign that returns writes, in row offset, the cells
\* key.rlc, key.mult and acc_s.rlc, and proof_type = 4 exactly when the flag
\* byte of the row is 1; every other cell of the region keeps its value, and
\* the values written are those computed from rows offset - 1 and offset and
\* the randomness. A call that panics writes nothing.
C22_AssignFrame ==
    [][/\ (status = "ready" /\ status' = "assigned") =>
            (/\ \A j \in DOMAIN region : \A c \in Cols :
                   ((j # offset \/ c \notin C22_Written) => (region'[j][c] = region[j][c]))
             /\ region'[offset]["key_rlc"] = C22_Sum(C22_Row)
             /\ region'[offset]["key_mult"] = C22_Sum(C22_LeafKeyC)
             /\ region'[offset]["acc_s_rlc"] =
                    (IF C22_Sum(C22_Row) = C22_Sum(C22_LeafKeyC) THEN 0
                     ELSE FInvert(FSub(C22_Sum(C22_Row), C22_Sum(C22_LeafKeyC))))
             /\ ((C22_Flag = 1) => (region'[offset]["proof_type"] = 4)))
       /\ (status = "ready" /\ status' = "panic") => (region' = region)]_vars

C22_Witness ==
    /\ status = "assigned"
    /\ offset = 2
    /\ C22_Flag = 2
    /\ region[offset]["proof_type"] = 1
    /\ region[offset]["key_rlc"] = 3
    /\ region[offset]["key_mult"] = 0
    /\ region[1]["key_rlc"] = 1
    /\ witness[1][4] = 200

====
